---- MODULE Spec2Model ----
(***************************************************************************)
(* CivicTrack: the issue store, the moderation counters, the status log    *)
(* and the public queries, as the Express handlers (the routes file) drive *)
(* the DatabaseStorage methods (the storage file).                         *)
(*                                                                         *)
(* Every handler is a chain of awaited store statements.  Each statement   *)
(* is executed atomically by the database; between two statements of one   *)
(* handler any statement of another handler may run.  A handler is         *)
(* therefore one action per store statement, and a request that is between *)
(* two statements is an element of the bag `inflight`.                     *)
(*                                                                         *)
(* Statements that only read are joined to the arrival of the request:     *)
(* the first action of a handler is "the request arrives and its reads     *)
(* run".  No handler wraps its statements in a transaction (the storage    *)
(* file never calls db.transaction).                                       *)
(*                                                                         *)
(* Store failures: a write statement may be rejected by the store; the     *)
(* handler's catch block then answers 500 (action StoreFault).  Reads are  *)
(* taken to succeed: a failed read would end the handler with 500 before   *)
(* it has written anything.                                                *)
(***************************************************************************)
EXTENDS Integers, Sequences, FiniteSets, Bags, TLC

VARIABLES
  users,            \* table users:  id -> [isAdmin, isBanned]
  issues,           \* table issues: id -> row
  issueFlags,       \* table issue_flags: a bag of rows (no unique constraint)
  issueVotes,       \* table issue_votes: a bag of rows (no unique constraint)
  issueStatusLogs,  \* table issue_status_logs: rows in insertion order
  inflight,         \* bag of requests that are between two store statements
  resp,             \* the HTTP response sent by the last step (NoResp if none)
  photos            \* ReportForm: the number of photos selected in the form

vars == <<users, issues, issueFlags, issueVotes, issueStatusLogs, inflight, resp,
          photos>>

store == <<users, issues, issueFlags, issueVotes, issueStatusLogs>>

(***************************************************************************)
(* Bounds of the model.                                                    *)
(***************************************************************************)
NumFlaggers == 5     \* users of the flagging scenario
NumMembers == 2      \* users of the other scenarios (user 1 is the admin)
MaxIssues == 2       \* issue ids a request may name, rows of a queried store
MaxCreates == 1      \* issues created by POST /api/issues
MaxInFlight == 2     \* requests that may be in progress at once
MaxLogs == 3         \* rows of issue_status_logs
MaxStored == 5       \* issues in the store of the analytics scenario
MaxPicked == 4       \* files picked in one file dialog or sent in one request

(***************************************************************************)
(* Program constants.                                                      *)
(***************************************************************************)
HideThreshold == 5   \* gte(issues.flagCount, 5)
DefaultRadius == 5   \* radius = 5
DefaultLimit == 50   \* limit = 50
DefaultOffset == 0   \* offset = 0
MaxFiles == 3        \* multer limits.files: 3 and upload.array('photos', 3)
MaxPhotos == 3       \* ReportForm: remainingSlots = 3 - photos.length

Statuses == {"reported", "in_progress", "resolved"}

\* What a request body may carry in its status field: a status, or a string
\* that is none ("closed").  Null: the field is absent.
StatusInputs == Statuses \cup {"closed"}

Categories == {"roads", "water"}

Null == "null"

IssueIds == 1..MaxIssues

\* Coordinates an issue or a query may have:
\*   SF    (37.7749, -122.4194)
\*   HAYES (37.7800, -122.4194), 567 m north of SF
\*   FAR   (39.5736, -122.4194), 200 km north of SF
Places == {"SF", "HAYES", "FAR"}

(***************************************************************************)
(* Rows.                                                                   *)
(***************************************************************************)
\* A row of issues as createIssue inserts it: the columns that the insert
\* schema omits take their defaults.  createdAt is the insertion order.
NewIssue(category, place, createdAt) ==
  [ category |-> category,
    place |-> place,
    status |-> "reported",
    isHidden |-> FALSE,
    flagCount |-> 0,
    reportCount |-> 1,
    photos |-> 0,
    createdAt |-> createdAt ]

FlagRow(issueId, userId) == [issueId |-> issueId, flaggerId |-> userId]

VoteRow(issueId, userId) == [issueId |-> issueId, voterId |-> userId]

\* prior is not a column: it records, for the audit of the log, the status the
\* issue had immediately before the update that this row logs took effect.
LogRow(issueId, oldStatus, newStatus, prior) ==
  [ issueId |-> issueId,
    oldStatus |-> oldStatus,
    newStatus |-> newStatus,
    prior |-> prior ]

UserRow(isAdmin) == [isAdmin |-> isAdmin, isBanned |-> FALSE]

(***************************************************************************)
(* Requests and responses.                                                 *)
(***************************************************************************)
\* The result of getIssueAnalytics.  A mapping has a key for each group the
\* GROUP BY query returned, that is for each value that occurs.
Stats(total, byCategory, byStatus) ==
  [ totalIssues |-> total,
    issuesByCategory |-> byCategory,
    issuesByStatus |-> byStatus ]

NoCounts == [key \in {} |-> 0]

NoStats == Stats(0, NoCounts, NoCounts)

\* A request between two store statements.  pc names the storage method it
\* will call next.  category, place and status are the validated body of a
\* create request; for a set-status request cur is the status read by
\* updateIssueStatus and status the requested one; stats holds the results
\* of the analytics queries run so far.  dup and prior are not program state:
\* dup records whether the user's row already existed when the request
\* arrived, prior the status the issue had when the request's UPDATE took
\* effect.
Req(kind, userId, issueId, pc) ==
  [ kind |-> kind,
    userId |-> userId,
    issueId |-> issueId,
    pc |-> pc,
    category |-> Null,
    place |-> Null,
    cur |-> Null,
    status |-> Null,
    prior |-> Null,
    dup |-> FALSE,
    photos |-> 0,
    stats |-> NoStats ]

\* The arguments of a nearby request; origin Null: lat or lng not supplied.
NearbyArgs(origin, radiusKm, category, status, limit, offset) ==
  [ origin |-> origin,
    radiusKm |-> radiusKm,
    category |-> category,
    status |-> status,
    limit |-> limit,
    offset |-> offset ]

NoArgs == NearbyArgs(Null, 0, Null, Null, 0, 0)

\* A response: the status code and the ids of the issues in its body (for
\* analytics the counts, in stats).  dup and args are not sent: they record
\* what the request was.
Response(kind, code, dup, body) ==
  [ kind |-> kind, code |-> code, dup |-> dup, body |-> body,
    args |-> NoArgs, stats |-> NoStats ]

NoResp == Response("none", 0, FALSE, <<>>)

Requests == BagToSet(inflight)

Enter(r) == inflight' = inflight (+) SetToBag({r})

Leave(r) == inflight' = inflight (-) SetToBag({r})

Move(r, pc) ==
  inflight' = (inflight (-) SetToBag({r})) (+) SetToBag({[r EXCEPT !.pc = pc]})

(***************************************************************************)
(* DatabaseStorage: flagging.                                              *)
(***************************************************************************)
\* getUserFlaggedIssue with its two arguments exchanged
getUserFlaggedIssue_swapped(issueId, userId) ==
  \E row \in BagToSet(issueFlags) :
    row.issueId = userId /\ row.flaggerId = issueId

\* getUserFlaggedIssue: is there a row with this issueId and this flaggerId
getUserFlaggedIssue(issueId, userId) ==
  \E row \in BagToSet(issueFlags) :
    row.issueId = issueId /\ row.flaggerId = userId

\* incrementFlagCount as a read-modify-write: the value written is one more
\* than a count read before the concurrent requests incremented it
incrementFlagCount_staleWrite(rows, issueId) ==
  LET concurrent == {r.userId : r \in {x \in BagToSet(inflight) :
                                        x.kind = "flag" /\ x.issueId = issueId}}
      seen == {row.flaggerId : row \in {x \in BagToSet(issueFlags) :
                                          x.issueId = issueId}} \ concurrent
  IN  [rows EXCEPT ![issueId].flagCount = Cardinality(seen) + 1]

\* the first UPDATE of incrementIssueFlagCount: flagCount = flagCount + 1
incrementFlagCount(rows, issueId) ==
  [rows EXCEPT ![issueId].flagCount = @ + 1]

\* autoHide with the comparison gt in place of gte
autoHide_gt(rows, issueId) ==
  IF rows[issueId].flagCount > HideThreshold
    THEN [rows EXCEPT ![issueId].isHidden = TRUE]
    ELSE rows

\* the second UPDATE of incrementIssueFlagCount:
\* SET isHidden = true WHERE id = issueId AND flagCount >= 5
autoHide(rows, issueId) ==
  IF rows[issueId].flagCount >= HideThreshold
    THEN [rows EXCEPT ![issueId].isHidden = TRUE]
    ELSE rows

(***************************************************************************)
(* POST /api/issues/:id/flag                                               *)
(***************************************************************************)
\* The request arrives; getUserFlaggedIssue runs; on no row the body is
\* validated (reasonOk: req.body.reason passes insertIssueFlagSchema).
FlagCheck(userId, issueId, reasonOk) ==
  /\ userId \in DOMAIN users
  /\ LET dup == CopiesIn(FlagRow(issueId, userId), issueFlags) > 0
     IN  IF getUserFlaggedIssue(issueId, userId)
           THEN /\ resp' = Response("flag", 400, dup, <<>>)
                /\ UNCHANGED inflight
           ELSE IF ~reasonOk
             THEN /\ resp' = Response("flag", 400, dup, <<>>)
                  /\ UNCHANGED inflight
             ELSE /\ BagCardinality(inflight) < MaxInFlight
                  /\ Enter([Req("flag", userId, issueId, "flagIssue") EXCEPT !.dup = dup])
                  /\ resp' = NoResp
  /\ UNCHANGED store
  /\ UNCHANGED photos

\* flagIssue, first statement: INSERT INTO issue_flags.  The row references
\* issues.id: for an id with no issue the insert is rejected and the catch
\* block answers 500.
FlagInsert(r) ==
  /\ r.kind = "flag" /\ r.pc = "flagIssue"
  /\ IF r.issueId \in DOMAIN issues
       THEN /\ issueFlags' = issueFlags (+) SetToBag({FlagRow(r.issueId, r.userId)})
            /\ Move(r, "incrementIssueFlagCount")
            /\ resp' = NoResp
       ELSE /\ Leave(r)
            /\ resp' = Response("flag", 500, r.dup, <<>>)
            /\ UNCHANGED issueFlags
  /\ UNCHANGED <<users, issues, issueVotes, issueStatusLogs>>
  /\ UNCHANGED photos

\* incrementIssueFlagCount, first statement
FlagIncrement(r) ==
  /\ r.kind = "flag" /\ r.pc = "incrementIssueFlagCount"
  /\ issues' = incrementFlagCount(issues, r.issueId)
  /\ Move(r, "autoHide")
  /\ resp' = NoResp
  /\ UNCHANGED <<users, issueFlags, issueVotes, issueStatusLogs>>
  /\ UNCHANGED photos

\* incrementIssueFlagCount, second statement; then the handler answers 201
FlagAutoHide(r) ==
  /\ r.kind = "flag" /\ r.pc = "autoHide"
  /\ issues' = autoHide(issues, r.issueId)
  /\ Leave(r)
  /\ resp' = Response("flag", 201, r.dup, <<>>)
  /\ UNCHANGED <<users, issueFlags, issueVotes, issueStatusLogs>>
  /\ UNCHANGED photos

(***************************************************************************)
(* DatabaseStorage: voting.                                                *)
(***************************************************************************)
\* getUserVoteForIssue: is there a row with this issueId and this voterId
getUserVoteForIssue(issueId, userId) ==
  \E row \in BagToSet(issueVotes) :
    row.issueId = issueId /\ row.voterId = userId

\* incrementIssueReportCount: reportCount = reportCount + 1
incrementIssueReportCount(rows, issueId) ==
  [rows EXCEPT ![issueId].reportCount = @ + 1]

(***************************************************************************)
(* POST /api/issues/:id/vote                                               *)
(***************************************************************************)
\* The request arrives; getUserVoteForIssue runs.  insertIssueVoteSchema
\* takes issueId and voterId, both strings the handler supplies: it passes.
VoteCheck(userId, issueId) ==
  /\ userId \in DOMAIN users
  /\ LET dup == CopiesIn(VoteRow(issueId, userId), issueVotes) > 0
     IN  IF getUserVoteForIssue(issueId, userId)
           THEN /\ resp' = Response("vote", 400, dup, <<>>)
                /\ UNCHANGED inflight
           ELSE /\ BagCardinality(inflight) < MaxInFlight
                /\ Enter([Req("vote", userId, issueId, "voteForIssue") EXCEPT !.dup = dup])
                /\ resp' = NoResp
  /\ UNCHANGED store
  /\ UNCHANGED photos

\* voteForIssue, first statement: INSERT INTO issue_votes (the row references
\* issues.id, as a flag row does)
VoteInsert(r) ==
  /\ r.kind = "vote" /\ r.pc = "voteForIssue"
  /\ IF r.issueId \in DOMAIN issues
       THEN /\ issueVotes' = issueVotes (+) SetToBag({VoteRow(r.issueId, r.userId)})
            /\ Move(r, "incrementIssueReportCount")
            /\ resp' = NoResp
       ELSE /\ Leave(r)
            /\ resp' = Response("vote", 500, r.dup, <<>>)
            /\ UNCHANGED issueVotes
  /\ UNCHANGED <<users, issues, issueFlags, issueStatusLogs>>
  /\ UNCHANGED photos

\* voteForIssue, second statement; then the handler answers 201
VoteIncrement(r) ==
  /\ r.kind = "vote" /\ r.pc = "incrementIssueReportCount"
  /\ issues' = incrementIssueReportCount(issues, r.issueId)
  /\ Leave(r)
  /\ resp' = Response("vote", 201, r.dup, <<>>)
  /\ UNCHANGED <<users, issueFlags, issueVotes, issueStatusLogs>>
  /\ UNCHANGED photos

(***************************************************************************)
(* The catch block of a handler: the store rejects the write statement the *)
(* request was about to run, and the handler answers 500.                  *)
(***************************************************************************)
StoreFault(r) ==
  /\ Leave(r)
  /\ resp' = Response(r.kind, 500, r.dup, <<>>)
  /\ UNCHANGED store
  /\ UNCHANGED photos

(***************************************************************************)
(* DatabaseStorage: issues and the status log.                             *)
(***************************************************************************)
\* gen_random_uuid(): an id no row has; ids are handed out in order
NextIssueId == Cardinality(DOMAIN issues) + 1

\* createIssue: INSERT INTO issues ... RETURNING.  insertIssueSchema omits id,
\* createdAt, updatedAt, flagCount, reportCount and isHidden, not status: a
\* status in the body is inserted, an absent one takes the column default.
\* photos: the number of file paths in the photos column.
createIssue(rows, id, category, place, status, files) ==
  [i \in DOMAIN rows \cup {id} |->
     IF i = id
       THEN [NewIssue(category, place, id)
               EXCEPT !.status = IF status = Null THEN @ ELSE status,
                      !.photos = files]
       ELSE rows[i]]

\* createStatusLog: INSERT INTO issue_status_logs
createStatusLog(logs, row) == Append(logs, row)

\* setStatus that also clears isHidden
setStatus_unhide(rows, id, status) ==
  [rows EXCEPT ![id].status = status, ![id].isHidden = FALSE]

\* updateIssueStatus, the UPDATE: SET status = status WHERE id = id
setStatus(rows, id, status) == [rows EXCEPT ![id].status = status]

\* hideIssue that also resolves the issue
hideIssue_resolving(rows, id) ==
  IF id \in DOMAIN rows
    THEN [rows EXCEPT ![id].isHidden = TRUE, ![id].status = "resolved"]
    ELSE rows

\* hideIssue: UPDATE issues SET isHidden = true WHERE id = id (no row: no-op)
hideIssue(rows, id) ==
  IF id \in DOMAIN rows THEN [rows EXCEPT ![id].isHidden = TRUE] ELSE rows

\* rows a handler that is in progress will still append to the log
LogsPending == Len(issueStatusLogs) + BagCardinality(inflight)

\* fewer than n issues are stored or about to be inserted
CreateRoom(n) ==
  Cardinality(DOMAIN issues)
    + Cardinality({r \in Requests : r.pc = "createIssue"}) < n

(***************************************************************************)
(* POST /api/issues                                                        *)
(***************************************************************************)
\* the upload middleware with its limit one too high
acceptUpload_oneMore(files) == files <= MaxFiles + 1

\* upload.array('photos', 3) of multer with limits.files = 3: a request that
\* carries more files than that is not accepted.
acceptUpload(files) == files <= MaxFiles

\* CreateCheck without the isBanned test
CreateCheck_noBanCheck(userId, files, category, place, status, valid) ==
  /\ userId \in DOMAIN users
  /\ IF ~acceptUpload(files)
       THEN /\ resp' = Response("create", 500, FALSE, <<>>)
            /\ UNCHANGED inflight
       ELSE IF ~valid
         THEN /\ resp' = Response("create", 400, FALSE, <<>>)
              /\ UNCHANGED inflight
         ELSE /\ BagCardinality(inflight) < MaxInFlight
              /\ LogsPending < MaxLogs
              /\ CreateRoom(MaxIssues)
              /\ Enter([Req("create", userId, 0, "createIssue")
                          EXCEPT !.category = category, !.place = place,
                                 !.status = status, !.photos = files])
              /\ resp' = NoResp
  /\ UNCHANGED store
  /\ UNCHANGED photos

\* The request arrives with its files; the upload middleware runs first and
\* ends a request it does not accept with an error (no handler of the routes
\* file sees it; Express answers 500); then getUser runs; a banned user is
\* answered 403; the body is validated (valid: it passes insertIssueSchema)
\* with photos set to the paths of the uploaded files, whatever the body says.
CreateCheck(userId, files, category, place, status, valid) ==
  /\ userId \in DOMAIN users
  /\ IF ~acceptUpload(files)
       THEN /\ resp' = Response("create", 500, FALSE, <<>>)
            /\ UNCHANGED inflight
       ELSE IF users[userId].isBanned
         THEN /\ resp' = Response("create", 403, FALSE, <<>>)
              /\ UNCHANGED inflight
         ELSE IF ~valid
           THEN /\ resp' = Response("create", 400, FALSE, <<>>)
                /\ UNCHANGED inflight
           ELSE /\ BagCardinality(inflight) < MaxInFlight
                /\ LogsPending < MaxLogs
                /\ CreateRoom(MaxIssues)
                /\ Enter([Req("create", userId, 0, "createIssue")
                            EXCEPT !.category = category, !.place = place,
                                   !.status = status, !.photos = files])
                /\ resp' = NoResp
  /\ UNCHANGED store
  /\ UNCHANGED photos

\* storage.createIssue(issueData)
CreateInsert(r) ==
  /\ r.kind = "create" /\ r.pc = "createIssue"
  /\ issues' = createIssue(issues, NextIssueId, r.category, r.place, r.status, r.photos)
  /\ inflight' = (inflight (-) SetToBag({r}))
                   (+) SetToBag({[r EXCEPT !.pc = "createStatusLog",
                                           !.issueId = NextIssueId]})
  /\ resp' = NoResp
  /\ UNCHANGED <<users, issueFlags, issueVotes, issueStatusLogs>>
  /\ UNCHANGED photos

\* storage.createStatusLog({oldStatus: null, newStatus: 'reported'}); then 201
CreateLog(r) ==
  /\ r.kind = "create" /\ r.pc = "createStatusLog"
  /\ issueStatusLogs' =
       createStatusLog(issueStatusLogs, LogRow(r.issueId, Null, "reported", Null))
  /\ Leave(r)
  /\ resp' = Response("create", 201, FALSE, <<r.issueId>>)
  /\ UNCHANGED <<users, issues, issueFlags, issueVotes>>
  /\ UNCHANGED photos

(***************************************************************************)
(* PATCH /api/admin/issues/:id/status                                      *)
(***************************************************************************)
\* StatusCheck with a transition check: a request that would move the status
\* backwards is answered 400
StatusCheck_forwardOnly(userId, issueId, status) ==
  /\ userId \in DOMAIN users
  /\ IF ~users[userId].isAdmin
       THEN /\ resp' = Response("status", 403, FALSE, <<>>)
            /\ UNCHANGED inflight
       ELSE IF issueId \notin DOMAIN issues
         THEN /\ resp' = Response("status", 404, FALSE, <<>>)
              /\ UNCHANGED inflight
         ELSE IF issues[issueId].status = "resolved" /\ status # "resolved"
           THEN /\ resp' = Response("status", 400, FALSE, <<>>)
                /\ UNCHANGED inflight
           ELSE /\ BagCardinality(inflight) < MaxInFlight
                /\ LogsPending < MaxLogs
                /\ Enter([Req("status", userId, issueId, "updateIssue")
                            EXCEPT !.cur = issues[issueId].status,
                                   !.status = status])
                /\ resp' = NoResp
  /\ UNCHANGED store
  /\ UNCHANGED photos

\* StatusCheck answering 200 where updateIssueStatus finds no issue
StatusCheck_missing200(userId, issueId, status) ==
  /\ userId \in DOMAIN users
  /\ IF ~users[userId].isAdmin
       THEN /\ resp' = Response("status", 403, FALSE, <<>>)
            /\ UNCHANGED inflight
       ELSE IF issueId \notin DOMAIN issues
         THEN /\ resp' = Response("status", 200, FALSE, <<>>)
              /\ UNCHANGED inflight
         ELSE /\ BagCardinality(inflight) < MaxInFlight
              /\ LogsPending < MaxLogs
              /\ Enter([Req("status", userId, issueId, "updateIssue")
                          EXCEPT !.cur = issues[issueId].status,
                                 !.status = status])
              /\ resp' = NoResp
  /\ UNCHANGED store
  /\ UNCHANGED photos

\* The request arrives; getUser runs; a non-admin is answered 403;
\* updateIssueStatus reads the current issue and returns undefined (404) when
\* there is none.  The requested status is not validated.
StatusCheck(userId, issueId, status) ==
  /\ userId \in DOMAIN users
  /\ IF ~users[userId].isAdmin
       THEN /\ resp' = Response("status", 403, FALSE, <<>>)
            /\ UNCHANGED inflight
       ELSE IF issueId \notin DOMAIN issues
         THEN /\ resp' = Response("status", 404, FALSE, <<>>)
              /\ UNCHANGED inflight
         ELSE /\ BagCardinality(inflight) < MaxInFlight
              /\ LogsPending < MaxLogs
              /\ Enter([Req("status", userId, issueId, "updateIssue")
                          EXCEPT !.cur = issues[issueId].status,
                                 !.status = status])
              /\ resp' = NoResp
  /\ UNCHANGED store
  /\ UNCHANGED photos

\* updateIssueStatus: the UPDATE ... RETURNING
StatusUpdate(r) ==
  /\ r.kind = "status" /\ r.pc = "updateIssue"
  /\ issues' = setStatus(issues, r.issueId, r.status)
  /\ inflight' = (inflight (-) SetToBag({r}))
                   (+) SetToBag({[r EXCEPT !.pc = "createStatusLog",
                                           !.prior = issues[r.issueId].status]})
  /\ resp' = NoResp
  /\ UNCHANGED <<users, issueFlags, issueVotes, issueStatusLogs>>
  /\ UNCHANGED photos

\* updateIssueStatus: createStatusLog({oldStatus: currentIssue.status,
\* newStatus: status}); then the handler answers 200 with the issue
StatusLog(r) ==
  /\ r.kind = "status" /\ r.pc = "createStatusLog"
  /\ issueStatusLogs' =
       createStatusLog(issueStatusLogs, LogRow(r.issueId, r.cur, r.status, r.prior))
  /\ Leave(r)
  /\ resp' = Response("status", 200, FALSE, <<r.issueId>>)
  /\ UNCHANGED <<users, issues, issueFlags, issueVotes>>
  /\ UNCHANGED photos

(***************************************************************************)
(* PATCH /api/admin/issues/:id/hide                                        *)
(***************************************************************************)
\* getUser, the admin check and the handler's only write, hideIssue.  The
\* handler answers 200 whether or not a row was updated.
AdminHide(userId, issueId) ==
  /\ userId \in DOMAIN users
  /\ IF ~users[userId].isAdmin
       THEN /\ resp' = Response("hide", 403, FALSE, <<>>)
            /\ UNCHANGED issues
       ELSE /\ issues' = hideIssue(issues, issueId)
            /\ resp' = Response("hide", 200, FALSE, <<>>)
  /\ UNCHANGED <<users, issueFlags, issueVotes, issueStatusLogs, inflight>>
  /\ UNCHANGED photos

(***************************************************************************)
(* PATCH /api/admin/users/:id/ban and /unban                               *)
(***************************************************************************)
\* banUser: UPDATE users SET isBanned = true WHERE id = userId
banUser(rows, userId) ==
  IF userId \in DOMAIN rows THEN [rows EXCEPT ![userId].isBanned = TRUE] ELSE rows

\* unbanUser: UPDATE users SET isBanned = false WHERE id = userId
unbanUser(rows, userId) ==
  IF userId \in DOMAIN rows THEN [rows EXCEPT ![userId].isBanned = FALSE] ELSE rows

\* Ban without the isAdmin test
Ban_anyUser(userId, target) ==
  /\ userId \in DOMAIN users
  /\ users' = banUser(users, target)
  /\ resp' = Response("ban", 200, FALSE, <<>>)
  /\ UNCHANGED <<issues, issueFlags, issueVotes, issueStatusLogs, inflight>>
  /\ UNCHANGED photos

Ban(userId, target) ==
  /\ userId \in DOMAIN users
  /\ IF ~users[userId].isAdmin
       THEN /\ resp' = Response("ban", 403, FALSE, <<>>)
            /\ UNCHANGED users
       ELSE /\ users' = banUser(users, target)
            /\ resp' = Response("ban", 200, FALSE, <<>>)
  /\ UNCHANGED <<issues, issueFlags, issueVotes, issueStatusLogs, inflight>>
  /\ UNCHANGED photos

Unban(userId, target) ==
  /\ userId \in DOMAIN users
  /\ IF ~users[userId].isAdmin
       THEN /\ resp' = Response("unban", 403, FALSE, <<>>)
            /\ UNCHANGED users
       ELSE /\ users' = unbanUser(users, target)
            /\ resp' = Response("unban", 200, FALSE, <<>>)
  /\ UNCHANGED <<issues, issueFlags, issueVotes, issueStatusLogs, inflight>>
  /\ UNCHANGED photos

(***************************************************************************)
(* GET /api/admin/issues/flagged and GET /api/admin/analytics              *)
(***************************************************************************)
\* ORDER BY flagCount DESC
RECURSIVE OrderByFlagCountDesc(_, _)
OrderByFlagCountDesc(rows, ids) ==
  IF ids = {} THEN <<>>
  ELSE LET most == CHOOSE i \in ids :
                     \A j \in ids : rows[j].flagCount <= rows[i].flagCount
       IN  <<most>> \o OrderByFlagCountDesc(rows, ids \ {most})

\* getFlaggedIssues with the condition isHidden = false added
getFlaggedIssues_visibleOnly(rows) ==
  OrderByFlagCountDesc(rows, {i \in DOMAIN rows :
                                rows[i].flagCount >= 1 /\ ~rows[i].isHidden})

\* getFlaggedIssues: WHERE flagCount >= 1 ORDER BY flagCount DESC
getFlaggedIssues(rows) ==
  OrderByFlagCountDesc(rows, {i \in DOMAIN rows : rows[i].flagCount >= 1})

Flagged(userId) ==
  /\ userId \in DOMAIN users
  /\ IF ~users[userId].isAdmin
       THEN resp' = Response("flagged", 403, FALSE, <<>>)
       ELSE resp' = Response("flagged", 200, FALSE, getFlaggedIssues(issues))
  /\ UNCHANGED <<store, inflight>>
  /\ UNCHANGED photos

\* getIssueAnalytics, first SELECT: count(*) WHERE isHidden = false
totalIssues(rows) == Cardinality({i \in DOMAIN rows : ~rows[i].isHidden})

\* categoryStats without the condition isHidden = false
categoryStats_withHidden(rows) ==
  [c \in {rows[i].category : i \in DOMAIN rows} |->
     Cardinality({i \in DOMAIN rows : rows[i].category = c})]

\* second SELECT: category, count(*) WHERE isHidden = false GROUP BY category
categoryStats(rows) ==
  LET visible == {i \in DOMAIN rows : ~rows[i].isHidden}
  IN  [c \in {rows[i].category : i \in visible} |->
         Cardinality({i \in visible : rows[i].category = c})]

\* third SELECT: status, count(*) WHERE isHidden = false GROUP BY status
statusStats(rows) ==
  LET visible == {i \in DOMAIN rows : ~rows[i].isHidden}
  IN  [st \in {rows[i].status : i \in visible} |->
         Cardinality({i \in visible : rows[i].status = st})]

\* The request arrives; getUser runs; a non-admin is answered 403;
\* getIssueAnalytics runs its first SELECT.  The three SELECTs are separate
\* statements, not a transaction.
Analytics(userId) ==
  /\ userId \in DOMAIN users
  /\ IF ~users[userId].isAdmin
       THEN /\ resp' = Response("analytics", 403, FALSE, <<>>)
            /\ UNCHANGED inflight
       ELSE /\ BagCardinality(inflight) < MaxInFlight
            /\ Enter([Req("analytics", userId, 0, "categoryStats")
                        EXCEPT !.stats.totalIssues = totalIssues(issues)])
            /\ resp' = NoResp
  /\ UNCHANGED store
  /\ UNCHANGED photos

\* getIssueAnalytics, second SELECT
AnalyticsCategory(r) ==
  /\ r.kind = "analytics" /\ r.pc = "categoryStats"
  /\ inflight' = (inflight (-) SetToBag({r}))
                   (+) SetToBag({[r EXCEPT !.pc = "statusStats",
                                           !.stats.issuesByCategory =
                                              categoryStats(issues)]})
  /\ resp' = NoResp
  /\ UNCHANGED store
  /\ UNCHANGED photos

\* getIssueAnalytics, third SELECT; then the handler answers 200
AnalyticsStatus(r) ==
  /\ r.kind = "analytics" /\ r.pc = "statusStats"
  /\ Leave(r)
  /\ resp' = [Response("analytics", 200, FALSE, <<>>)
               EXCEPT !.stats = [r.stats EXCEPT !.issuesByStatus = statusStats(issues)]]
  /\ UNCHANGED store
  /\ UNCHANGED photos

(***************************************************************************)
(* DatabaseStorage.getIssuesNearLocation                                   *)
(***************************************************************************)
\* The great-circle distance between two places, in metres (R = 6371 km).
GreatCircleMetres(a, b) ==
  IF a = b THEN 0
  ELSE IF {a, b} = {"SF", "HAYES"} THEN 567
  ELSE IF {a, b} = {"SF", "FAR"} THEN 200006
  ELSE 199439

\* The argument of acos in distanceQuery,
\*   cos(radians(lat)) * cos(radians(row.lat)) * cos(radians(row.lng) - radians(lng))
\*     + sin(radians(lat)) * sin(radians(row.lat)),
\* as PostgreSQL evaluates it in IEEE-754 double precision, exceeds 1 for a row
\* at the origin's own coordinates when cos^2 + sin^2 of the latitude rounds
\* up: at latitude 37.78 it is 1.0000000000000002 (at 37.7749 and at 39.5736
\* it is exactly 1).
AcosArgumentAboveOne(origin, place) == origin = "HAYES" /\ place = "HAYES"

\* distanceQuery for one row: acos raises "input is out of range" for an
\* argument above 1; otherwise 6371 * acos(...), here in metres.
DistanceRaises(origin, place) == AcosArgumentAboveOne(origin, place)

distanceQuery(origin, place) == GreatCircleMetres(origin, place)

\* OtherQuals without eq(issues.isHidden, false)
OtherQuals_noHidden(row, category, status) ==
  /\ category # Null => row.category = category
  /\ status # Null => row.status = status

\* the conjuncts of the WHERE clause other than the distance
OtherQuals(row, category, status) ==
  /\ row.isHidden = FALSE
  /\ category # Null => row.category = category
  /\ status # Null => row.status = status

\* the WHERE clause
NearbyRows(rows, origin, radiusKm, category, status) ==
  {i \in DOMAIN rows :
     /\ distanceQuery(origin, rows[i].place) <= radiusKm * 1000
     /\ OtherQuals(rows[i], category, status)}

\* ORDER BY createdAt DESC
RECURSIVE OrderByCreatedAtDesc(_, _)
OrderByCreatedAtDesc(rows, ids) ==
  IF ids = {} THEN <<>>
  ELSE LET newest == CHOOSE i \in ids :
                       \A j \in ids : rows[j].createdAt <= rows[i].createdAt
       IN  <<newest>> \o OrderByCreatedAtDesc(rows, ids \ {newest})

\* LIMIT limit OFFSET offset
LimitOffset(seq, limit, offset) ==
  SubSeq(seq, offset + 1, IF offset + limit < Len(seq) THEN offset + limit ELSE Len(seq))

getIssuesNearLocation(rows, origin, radiusKm, category, status, limit, offset) ==
  LimitOffset(
    OrderByCreatedAtDesc(rows, NearbyRows(rows, origin, radiusKm, category, status)),
    limit, offset)

(***************************************************************************)
(* GET /api/issues/nearby                                                  *)
(***************************************************************************)
\* Nearby without the test of lat and lng: parseFloat(undefined) is NaN, no
\* distance compares <= radius, and the answer is 200 with an empty list
Nearby_noCoordinateCheck(origin, radiusKm, category, status, limit, offset, evalAll) ==
  /\ LET args == NearbyArgs(origin, radiusKm, category, status, limit, offset)
         raises ==
           \E i \in DOMAIN issues :
             /\ evalAll \/ OtherQuals(issues[i], category, status)
             /\ DistanceRaises(origin, issues[i].place)
     IN  IF origin = Null
           THEN resp' = [Response("nearby", 200, FALSE, <<>>) EXCEPT !.args = args]
           ELSE IF raises
             THEN resp' = [Response("nearby", 500, FALSE, <<>>) EXCEPT !.args = args]
             ELSE resp' =
                    [Response("nearby", 200, FALSE,
                              getIssuesNearLocation(issues, origin, radiusKm,
                                                    category, status, limit, offset))
                       EXCEPT !.args = args]
  /\ UNCHANGED <<store, inflight>>
  /\ UNCHANGED photos

\* SQL leaves the order in which the conjuncts of WHERE are evaluated to the
\* planner: the distance is computed for every row (evalAll) or only for the
\* rows that pass the other conjuncts.  A row for which it raises fails the
\* whole query, and the handler answers 500.
Nearby(origin, radiusKm, category, status, limit, offset, evalAll) ==
  /\ LET args == NearbyArgs(origin, radiusKm, category, status, limit, offset)
         raises ==
           \E i \in DOMAIN issues :
             /\ evalAll \/ OtherQuals(issues[i], category, status)
             /\ DistanceRaises(origin, issues[i].place)
     IN  IF origin = Null
           THEN resp' = [Response("nearby", 400, FALSE, <<>>) EXCEPT !.args = args]
           ELSE IF raises
             THEN resp' = [Response("nearby", 500, FALSE, <<>>) EXCEPT !.args = args]
             ELSE resp' =
                    [Response("nearby", 200, FALSE,
                              getIssuesNearLocation(issues, origin, radiusKm,
                                                    category, status, limit, offset))
                       EXCEPT !.args = args]
  /\ UNCHANGED <<store, inflight>>
  /\ UNCHANGED photos

(***************************************************************************)
(* GET /api/issues/:id                                                     *)
(***************************************************************************)
\* storage.getIssue: SELECT ... WHERE id = id
getIssue(rows, id) == IF id \in DOMAIN rows THEN <<id>> ELSE <<>>

GetIssue(issueId) ==
  /\ IF getIssue(issues, issueId) = <<>>
       THEN resp' = Response("getIssue", 404, FALSE, <<>>)
       ELSE resp' = Response("getIssue", 200, FALSE, getIssue(issues, issueId))
  /\ UNCHANGED <<store, inflight>>
  /\ UNCHANGED photos

\* The users are interchangeable in the flagging scenario: of the users who
\* have no Flag row and no request in progress, the one with the lowest id
\* acts first.
(***************************************************************************)
(* ReportForm: the photos selected in the report form of the client.       *)
(***************************************************************************)
\* the length of files.slice(0, end) for an array of n files
SliceLength(n, end) ==
  IF end >= 0 THEN (IF n < end THEN n ELSE end)
  ELSE (IF n + end > 0 THEN n + end ELSE 0)

\* The file input's change event with `picked` files; the input is disabled
\* once MaxPhotos photos are selected.
handlePhotoUpload(picked) ==
  /\ photos < MaxPhotos
  /\ LET remainingSlots == MaxPhotos - photos
         filesToAdd == SliceLength(picked, remainingSlots)
     IN  photos' = photos + filesToAdd
  /\ resp' = NoResp
  /\ UNCHANGED <<store, inflight>>

\* The remove button of the preview at position index.
removePhoto(index) ==
  /\ index \in 0..(photos - 1)
  /\ photos' = Cardinality({i \in 0..(photos - 1) : i # index})
  /\ resp' = NoResp
  /\ UNCHANGED <<store, inflight>>

\* onSubmit: the form's fields and its photos are sent as one multipart
\* request by the signed-in user.
Submit(userId, category, place) ==
  CreateCheck(userId, photos, category, place, Null, TRUE)

\* onSuccess of the mutation: the form is reset after an answer 201.
FormReset ==
  /\ resp.kind = "create" /\ resp.code = 201
  /\ photos' = 0
  /\ resp' = NoResp
  /\ UNCHANGED <<store, inflight>>

FirstInLine(userId) ==
  LET engaged(u) == \/ \E row \in BagToSet(issueFlags) : row.flaggerId = u
                    \/ \E r \in Requests : r.userId = u
  IN  engaged(userId) \/ \A u \in DOMAIN users : u < userId => engaged(u)

(***************************************************************************)
(* The whole system: the store as the server finds it after construction   *)
(* (the users registered, no issue yet) and every handler.  The scenarios  *)
(* below are parts of it, each started in a state it reaches.              *)
(***************************************************************************)
Init ==
  /\ users = [u \in 1..NumMembers |-> UserRow(u = 1)]
  /\ issues = <<>>
  /\ issueFlags = EmptyBag
  /\ issueVotes = EmptyBag
  /\ issueStatusLogs = <<>>
  /\ inflight = EmptyBag
  /\ resp = NoResp
  /\ photos = 0

Next ==
  \/ \E u \in DOMAIN users, c \in Categories, p \in Places,
        st \in StatusInputs \cup {Null}, v \in BOOLEAN, files \in 0..MaxPicked :
       CreateCheck(u, files, c, p, st, v)
  \/ \E r \in Requests : CreateInsert(r)
  \/ \E r \in Requests : CreateLog(r)
  \/ \E u \in DOMAIN users, i \in IssueIds, st \in StatusInputs : StatusCheck(u, i, st)
  \/ \E r \in Requests : StatusUpdate(r)
  \/ \E r \in Requests : StatusLog(r)
  \/ \E u \in DOMAIN users, i \in IssueIds : AdminHide(u, i)
  \/ \E u \in DOMAIN users, target \in DOMAIN users : Ban(u, target)
  \/ \E u \in DOMAIN users, target \in DOMAIN users : Unban(u, target)
  \/ \E u \in DOMAIN users : Flagged(u)
  \/ \E u \in DOMAIN users : Analytics(u)
  \/ \E r \in Requests : AnalyticsCategory(r)
  \/ \E r \in Requests : AnalyticsStatus(r)
  \/ \E u \in DOMAIN users, i \in IssueIds, ok \in BOOLEAN : FlagCheck(u, i, ok)
  \/ \E r \in Requests : FlagInsert(r)
  \/ \E r \in Requests : FlagIncrement(r)
  \/ \E r \in Requests : FlagAutoHide(r)
  \/ \E u \in DOMAIN users, i \in IssueIds : VoteCheck(u, i)
  \/ \E r \in Requests : VoteInsert(r)
  \/ \E r \in Requests : VoteIncrement(r)
  \/ \E r \in Requests : StoreFault(r)
  \/ \E origin \in Places \cup {Null}, radiusKm \in {1, DefaultRadius},
        category \in Categories \cup {Null}, status \in Statuses \cup {Null},
        limit \in {1, DefaultLimit}, offset \in {DefaultOffset, 1},
        evalAll \in BOOLEAN :
       Nearby(origin, radiusKm, category, status, limit, offset, evalAll)
  \/ \E i \in IssueIds : GetIssue(i)
  \/ \E picked \in 0..MaxPicked : handlePhotoUpload(picked)
  \/ \E index \in 0..(MaxPhotos - 1) : removePhoto(index)
  \/ \E u \in DOMAIN users, c \in Categories, p \in Places : Submit(u, c, p)
  \/ FormReset

Spec == Init /\ [][Next]_vars

(***************************************************************************)
(* The flagging scenario: one freshly created issue, NumFlaggers users,    *)
(* only flag requests, no store failure, no admin.                         *)
(***************************************************************************)
InitFlag ==
  /\ users = [u \in 1..NumFlaggers |-> UserRow(u = 1)]
  /\ issues = [i \in {1} |-> NewIssue("roads", "SF", 1)]
  /\ issueFlags = EmptyBag
  /\ issueVotes = EmptyBag
  /\ issueStatusLogs = <<LogRow(1, Null, "reported", Null)>>
  /\ inflight = EmptyBag
  /\ resp = NoResp
  /\ photos = 0

NextFlag ==
  \/ \E u \in DOMAIN users, i \in DOMAIN issues, ok \in BOOLEAN :
       FirstInLine(u) /\ FlagCheck(u, i, ok)
  \/ \E r \in Requests : FlagInsert(r)
  \/ \E r \in Requests : FlagIncrement(r)
  \/ \E r \in Requests : FlagAutoHide(r)

SpecFlag == InitFlag /\ [][NextFlag]_vars

(***************************************************************************)
(* The moderation scenario: one issue, NumMembers users, flag and vote     *)
(* requests, store failures.                                               *)
(***************************************************************************)
InitMod ==
  /\ users = [u \in 1..NumMembers |-> UserRow(u = 1)]
  /\ issues = [i \in {1} |-> NewIssue("roads", "SF", 1)]
  /\ issueFlags = EmptyBag
  /\ issueVotes = EmptyBag
  /\ issueStatusLogs = <<LogRow(1, Null, "reported", Null)>>
  /\ inflight = EmptyBag
  /\ resp = NoResp
  /\ photos = 0

NextMod ==
  \/ \E u \in DOMAIN users, i \in DOMAIN issues, ok \in BOOLEAN : FlagCheck(u, i, ok)
  \/ \E r \in Requests : FlagInsert(r)
  \/ \E r \in Requests : FlagIncrement(r)
  \/ \E r \in Requests : FlagAutoHide(r)
  \/ \E u \in DOMAIN users, i \in DOMAIN issues : VoteCheck(u, i)
  \/ \E r \in Requests : VoteInsert(r)
  \/ \E r \in Requests : VoteIncrement(r)
  \/ \E r \in Requests : StoreFault(r)

SpecMod == InitMod /\ [][NextMod]_vars

(***************************************************************************)
(* The status scenario: from the empty store, create requests that carry   *)
(* no status and admin set-status requests that carry one of the three     *)
(* statuses, store failures.                                               *)
(***************************************************************************)
InitStatus ==
  /\ users = [u \in 1..NumMembers |-> UserRow(u = 1)]
  /\ issues = <<>>
  /\ issueFlags = EmptyBag
  /\ issueVotes = EmptyBag
  /\ issueStatusLogs = <<>>
  /\ inflight = EmptyBag
  /\ resp = NoResp
  /\ photos = 0

NextStatus ==
  \/ \E u \in DOMAIN users, v \in BOOLEAN :
       (v => CreateRoom(MaxCreates)) /\ CreateCheck(u, 0, "roads", "SF", Null, v)
  \/ \E r \in Requests : CreateInsert(r)
  \/ \E r \in Requests : CreateLog(r)
  \/ \E u \in DOMAIN users, i \in IssueIds, st \in Statuses : StatusCheck(u, i, st)
  \/ \E r \in Requests : StatusUpdate(r)
  \/ \E r \in Requests : StatusLog(r)
  \/ \E r \in Requests : StoreFault(r)

SpecStatus == InitStatus /\ [][NextStatus]_vars

(***************************************************************************)
(* The query scenario: a store of up to MaxIssues issues, each with any    *)
(* category, place and status, hidden or not, as create, set-status and    *)
(* hide requests leave it; then public queries and admin hide requests.    *)
(***************************************************************************)
IssueRows(id) ==
  { [NewIssue(c, p, id) EXCEPT !.status = st, !.isHidden = h] :
      c \in Categories, p \in Places, st \in Statuses, h \in BOOLEAN }

\* the log that the creation of each issue and one set-status request per
\* issue whose status is not 'reported' have written
RECURSIVE LogsOf(_, _)
LogsOf(rows, n) ==
  IF n = 0 THEN <<>>
  ELSE LogsOf(rows, n - 1)
         \o <<LogRow(n, Null, "reported", Null)>>
         \o (IF rows[n].status = "reported" THEN <<>>
             ELSE <<LogRow(n, "reported", rows[n].status, "reported")>>)

InitQuery ==
  /\ users = [u \in 1..NumMembers |-> UserRow(u = 1)]
  /\ \E n \in 0..MaxIssues :
       /\ issues \in {f \in [1..n -> UNION {IssueRows(i) : i \in 1..n}] :
                        \A i \in 1..n : f[i] \in IssueRows(i)}
       /\ issueStatusLogs = LogsOf(issues, n)
  /\ issueFlags = EmptyBag
  /\ issueVotes = EmptyBag
  /\ inflight = EmptyBag
  /\ resp = NoResp
  /\ photos = 0

\* the response has been sent; the next request of the scenario follows
Delivered ==
  /\ resp # NoResp
  /\ resp' = NoResp
  /\ UNCHANGED <<store, inflight>>
  /\ UNCHANGED photos

\* the requests of the scenario come one after the other
NextQuery ==
  \/ /\ resp = NoResp
     /\ \E origin \in Places \cup {Null}, radiusKm \in {1, DefaultRadius},
           category \in Categories \cup {Null}, status \in Statuses \cup {Null},
           limit \in {1, DefaultLimit}, offset \in {DefaultOffset, 1},
           evalAll \in BOOLEAN :
          Nearby(origin, radiusKm, category, status, limit, offset, evalAll)
  \/ resp = NoResp /\ \E i \in IssueIds : GetIssue(i)
  \/ resp = NoResp /\ \E u \in DOMAIN users, i \in IssueIds : AdminHide(u, i)
  \/ Delivered

SpecQuery == InitQuery /\ [][NextQuery]_vars

(***************************************************************************)
(* The administration scenario: one reported issue, NumMembers users (user *)
(* 1 is the admin), and every handler that writes or that only admins may  *)
(* call, for stored and for unknown issue ids, with request bodies that    *)
(* carry a status or a string that is none.  The member (user 2) reports,  *)
(* flags and votes and is the one banned; both users call the admin        *)
(* endpoints.  The requests come one after the other.                      *)
(***************************************************************************)
InitAdmin ==
  /\ users = [u \in 1..NumMembers |-> UserRow(u = 1)]
  /\ issues = [i \in {1} |-> NewIssue("roads", "SF", 1)]
  /\ issueFlags = EmptyBag
  /\ issueVotes = EmptyBag
  /\ issueStatusLogs = <<LogRow(1, Null, "reported", Null)>>
  /\ inflight = EmptyBag
  /\ resp = NoResp
  /\ photos = 0

\* no request is between two store statements
Idle == inflight = EmptyBag

Members == {u \in DOMAIN users : ~users[u].isAdmin}

NextAdmin ==
  \/ /\ Idle
     /\ \E u \in Members, st \in {Null, "closed"}, v \in BOOLEAN :
          CreateCheck(u, 0, "roads", "SF", st, v)
  \/ \E r \in Requests : CreateInsert(r)
  \/ \E r \in Requests : CreateLog(r)
  \/ /\ Idle
     /\ \E u \in DOMAIN users, i \in IssueIds, st \in {"resolved", "closed"} :
          StatusCheck(u, i, st)
  \/ \E r \in Requests : StatusUpdate(r)
  \/ \E r \in Requests : StatusLog(r)
  \/ Idle /\ \E u \in DOMAIN users, i \in IssueIds : AdminHide(u, i)
  \/ Idle /\ \E u \in DOMAIN users, target \in Members : Ban(u, target)
  \/ Idle /\ \E u \in DOMAIN users, target \in Members : Unban(u, target)
  \/ Idle /\ \E u \in DOMAIN users : Flagged(u)
  \/ Idle /\ \E u \in DOMAIN users : Analytics(u)
  \/ \E r \in Requests : AnalyticsCategory(r)
  \/ \E r \in Requests : AnalyticsStatus(r)
  \/ Idle /\ \E u \in Members, i \in IssueIds, ok \in BOOLEAN : FlagCheck(u, i, ok)
  \/ \E r \in Requests : FlagInsert(r)
  \/ \E r \in Requests : FlagIncrement(r)
  \/ \E r \in Requests : FlagAutoHide(r)
  \/ Idle /\ \E u \in Members, i \in IssueIds : VoteCheck(u, i)
  \/ \E r \in Requests : VoteInsert(r)
  \/ \E r \in Requests : VoteIncrement(r)

SpecAdmin == InitAdmin /\ [][NextAdmin]_vars

(***************************************************************************)
(* The flagged-list scenario: two issues, NumMembers users who flag them   *)
(* one request after the other, the admin who hides them, and the flagged  *)
(* list read at any moment.                                                *)
(***************************************************************************)
InitFlagged ==
  /\ users = [u \in 1..NumMembers |-> UserRow(u = 1)]
  /\ issues = [i \in {1, 2} |->
                 IF i = 1 THEN NewIssue("roads", "SF", 1)
                          ELSE NewIssue("water", "HAYES", 2)]
  /\ issueFlags = EmptyBag
  /\ issueVotes = EmptyBag
  /\ issueStatusLogs = <<LogRow(1, Null, "reported", Null),
                         LogRow(2, Null, "reported", Null)>>
  /\ inflight = EmptyBag
  /\ resp = NoResp
  /\ photos = 0

NextFlagged ==
  \/ /\ Idle
     /\ \E u \in DOMAIN users, i \in DOMAIN issues, ok \in BOOLEAN :
          FlagCheck(u, i, ok)
  \/ \E r \in Requests : FlagInsert(r)
  \/ \E r \in Requests : FlagIncrement(r)
  \/ \E r \in Requests : FlagAutoHide(r)
  \/ \E u \in DOMAIN users, i \in DOMAIN issues : AdminHide(u, i)
  \/ \E u \in DOMAIN users : Flagged(u)

SpecFlagged == InitFlagged /\ [][NextFlagged]_vars

(***************************************************************************)
(* The analytics scenario: a store of up to MaxStored issues, each of any  *)
(* category, reported or resolved, hidden or not; analytics requests and   *)
(* admin hide requests, one after the other.                               *)
(***************************************************************************)
InitAnalytics ==
  /\ users = [u \in 1..NumMembers |-> UserRow(u = 1)]
  /\ \E n \in 0..MaxStored :
       \E category \in [1..n -> Categories],
          status \in [1..n -> {"reported", "resolved"}],
          isHidden \in [1..n -> BOOLEAN] :
         /\ issues = [i \in 1..n |->
                        [NewIssue(category[i], "SF", i)
                           EXCEPT !.status = status[i], !.isHidden = isHidden[i]]]
         /\ issueStatusLogs = LogsOf(issues, n)
  /\ issueFlags = EmptyBag
  /\ issueVotes = EmptyBag
  /\ inflight = EmptyBag
  /\ resp = NoResp
  /\ photos = 0

NextAnalytics ==
  \/ Idle /\ \E u \in DOMAIN users : Analytics(u)
  \/ \E r \in Requests : AnalyticsCategory(r)
  \/ \E r \in Requests : AnalyticsStatus(r)
  \/ Idle /\ \E u \in DOMAIN users, i \in DOMAIN issues : AdminHide(u, i)

SpecAnalytics == InitAnalytics /\ [][NextAnalytics]_vars

(***************************************************************************)
(* The upload scenario: member 2 fills in the report form, picking up to   *)
(* MaxPicked files at a time and removing photos, and submits it; create   *)
(* requests with up to MaxPicked files are also sent without the form.     *)
(***************************************************************************)
InitUpload ==
  /\ users = [u \in 1..NumMembers |-> UserRow(u = 1)]
  /\ issues = <<>>
  /\ issueFlags = EmptyBag
  /\ issueVotes = EmptyBag
  /\ issueStatusLogs = <<>>
  /\ inflight = EmptyBag
  /\ resp = NoResp
  /\ photos = 0

NextUpload ==
  \/ \E picked \in 0..MaxPicked : handlePhotoUpload(picked)
  \/ \E index \in 0..(MaxPhotos - 1) : removePhoto(index)
  \/ Submit(2, "roads", "SF")
  \/ FormReset
  \/ \E files \in 0..MaxPicked, v \in BOOLEAN :
       CreateCheck(1, files, "water", "SF", Null, v)
  \/ \E r \in Requests : CreateInsert(r)
  \/ \E r \in Requests : CreateLog(r)

SpecUpload == InitUpload /\ [][NextUpload]_vars

(***************************************************************************)
(* The dashboard scenario: the admin reads the analytics while members     *)
(* report, the admin hides and a flag request reaches the hide threshold.  *)
(* Issue 1 starts one flag short of the threshold, flagged by every user   *)
(* but the admin.  The statements of the requests interleave freely.       *)
(***************************************************************************)
InitDashboard ==
  /\ users = [u \in 1..NumFlaggers |-> UserRow(u = 1)]
  /\ issues = [i \in {1} |-> [NewIssue("roads", "SF", 1)
                                EXCEPT !.flagCount = HideThreshold - 1]]
  /\ issueFlags = SetToBag({FlagRow(1, u) : u \in 2..HideThreshold})
  /\ issueVotes = EmptyBag
  /\ issueStatusLogs = <<LogRow(1, Null, "reported", Null)>>
  /\ inflight = EmptyBag
  /\ resp = NoResp
  /\ photos = 0

NextDashboard ==
  \/ \E u \in {1, 2} : Analytics(u)
  \/ \E r \in Requests : AnalyticsCategory(r)
  \/ \E r \in Requests : AnalyticsStatus(r)
  \/ CreateCheck(2, 0, "water", "SF", Null, TRUE)
  \/ \E r \in Requests : CreateInsert(r)
  \/ \E r \in Requests : CreateLog(r)
  \/ \E u \in {1, 2}, i \in DOMAIN issues : AdminHide(u, i)
  \/ \E u \in {1, 2}, i \in DOMAIN issues : FlagCheck(u, i, TRUE)
  \/ \E r \in Requests : FlagInsert(r)
  \/ \E r \in Requests : FlagIncrement(r)
  \/ \E r \in Requests : FlagAutoHide(r)

SpecDashboard == InitDashboard /\ [][NextDashboard]_vars

(***************************************************************************)
(* Properties of flagging.                                                 *)
(***************************************************************************)
Flaggers(issueId) ==
  {row.flaggerId : row \in {x \in BagToSet(issueFlags) : x.issueId = issueId}}

FlagQuiescent(issueId) ==
  \A r \in Requests : ~(r.kind = "flag" /\ r.issueId = issueId)

\* C1: for every issue, in every state of the store that another request can
\* observe, flagCount >= 5 implies hidden = true.
C1_FlagCountForcesHidden ==
  \A i \in DOMAIN issues :
    issues[i].flagCount >= HideThreshold => issues[i].isHidden

\* C2: under any interleaving of flag requests at most one Flag row exists per
\* (issue, user) pair, and flagCount is incremented at most once for a pair:
\* it never exceeds the number of distinct users holding a Flag row.
C2_OneFlagPerPair ==
  /\ \A row \in BagToSet(issueFlags) : CopiesIn(row, issueFlags) <= 1
  /\ \A i \in DOMAIN issues : issues[i].flagCount <= Cardinality(Flaggers(i))

\* C10: starting from a freshly created issue that no admin hides, once k
\* distinct users have each completed one flag request (no flag request on the
\* issue is in progress, no user holds two rows) the issue is hidden if and
\* only if k >= 5.
C10_HiddenIffFiveFlags ==
  \A i \in DOMAIN issues :
    ( /\ FlagQuiescent(i)
      /\ \A row \in BagToSet(issueFlags) : CopiesIn(row, issueFlags) = 1 )
    => (issues[i].isHidden <=> Cardinality(Flaggers(i)) >= 5)

\* the fifth flag request has just been answered 201 and the issue is hidden
C10_Witness ==
  /\ resp.kind = "flag" /\ resp.code = 201
  /\ inflight = EmptyBag
  /\ \A row \in BagToSet(issueFlags) : CopiesIn(row, issueFlags) = 1
  /\ Cardinality(Flaggers(1)) = 5
  /\ issues[1].flagCount = 5
  /\ issues[1].isHidden

(***************************************************************************)
(* Properties of voting and of duplicate requests.                         *)
(***************************************************************************)
Voters(issueId) ==
  {row.voterId : row \in {x \in BagToSet(issueVotes) : x.issueId = issueId}}

\* C3: under any interleaving of vote requests at most one Vote row exists per
\* (issue, user) pair, and reportCount is incremented at most once for a pair:
\* it never exceeds its default 1 plus the number of distinct voters.
C3_OneVotePerPair ==
  /\ \A row \in BagToSet(issueVotes) : CopiesIn(row, issueVotes) <= 1
  /\ \A i \in DOMAIN issues : issues[i].reportCount <= 1 + Cardinality(Voters(i))

\* C4: a flag (vote) request of a user who already has a Flag (Vote) row on the
\* issue is answered 400 and changes no table; no such request ever gets past
\* the duplicate check to a write statement.
C4_DuplicateRejected ==
  [][ /\ resp'.dup => (resp'.code = 400 /\ UNCHANGED store)
      /\ \A r \in BagToSet(inflight') : ~r.dup ]_vars

\* a user who has voted and flagged is answered 400 on flagging again
C4_Witness ==
  /\ resp.kind = "flag" /\ resp.code = 400 /\ resp.dup
  /\ \E u \in DOMAIN users :
       /\ CopiesIn(FlagRow(1, u), issueFlags) = 1
       /\ CopiesIn(VoteRow(1, u), issueVotes) = 1
  /\ inflight = EmptyBag

(***************************************************************************)
(* Properties of the status log.                                           *)
(***************************************************************************)
\* C5: every successful set-status request appends exactly one StatusLogEntry
\* whose oldStatus equals the issue's status immediately before that request's
\* update took effect and whose newStatus is the requested status.
C5_LogRecordsPriorStatus ==
  [][ (resp'.kind = "status" /\ resp'.code = 200) =>
        \E r \in BagToSet(inflight) :
          /\ r.kind = "status"
          /\ inflight' = inflight (-) SetToBag({r})
          /\ issueStatusLogs' =
               Append(issueStatusLogs,
                      LogRow(r.issueId, r.prior, r.status, r.prior)) ]_vars

InitialLogs(issueId) ==
  {k \in DOMAIN issueStatusLogs :
     /\ issueStatusLogs[k].issueId = issueId
     /\ issueStatusLogs[k].oldStatus = Null}

\* C6: in every state where no create request is in progress, each issue in
\* the store has exactly one log entry with oldStatus = null (and newStatus =
\* 'reported'), also when its create request ended in a store error.
C6_OneInitialLogPerIssue ==
  (\A r \in Requests : r.kind # "create") =>
    \A i \in DOMAIN issues :
      /\ Cardinality(InitialLogs(i)) = 1
      /\ \A k \in InitialLogs(i) : issueStatusLogs[k].newStatus = "reported"

(***************************************************************************)
(* Properties of the administration scenario.                              *)
(***************************************************************************)
\* C11: once an issue's hidden flag is true, no step of any request (flag,
\* vote, set-status, hide, ban, unban, creation of another issue) sets it back
\* to false.
C11_HiddenIsMonotonic ==
  [][ \A i \in DOMAIN issues :
        issues[i].isHidden => (i \in DOMAIN issues' /\ issues'[i].isHidden) ]_vars

\* issue 1, flagged and voted for, was hidden by the admin; a second issue has
\* been created and the member banned; a set-status request for issue 1, which
\* arrived after the hide, has just been answered 200 and issue 1 is hidden
C11_Witness ==
  /\ resp.kind = "status" /\ resp.code = 200 /\ resp.body = <<1>>
  /\ issues[1].isHidden
  /\ 2 \in DOMAIN issues
  /\ issues[1].flagCount = 1 /\ issues[1].reportCount = 2
  /\ users[2].isBanned

\* the step is a step of a flag, vote, hide, ban or unban request
ModerationStep ==
  \/ \E u \in DOMAIN users, i \in IssueIds, ok \in BOOLEAN : FlagCheck(u, i, ok)
  \/ \E r \in Requests : FlagInsert(r) \/ FlagIncrement(r) \/ FlagAutoHide(r)
  \/ \E u \in DOMAIN users, i \in IssueIds : VoteCheck(u, i)
  \/ \E r \in Requests : VoteInsert(r) \/ VoteIncrement(r)
  \/ \E u \in DOMAIN users, i \in IssueIds : AdminHide(u, i)
  \/ \E u \in DOMAIN users, target \in DOMAIN users :
       Ban(u, target) \/ Unban(u, target)

\* C12: set-status is the only operation that changes the status of an
\* existing issue: a step of a flag, vote (incrementReportCount included),
\* hide, ban or unban request leaves every issue's status unchanged and
\* appends no StatusLogEntry, and a step that changes a status is the UPDATE
\* of a set-status request.
C12_OnlySetStatusChangesStatus ==
  [][ /\ ModerationStep =>
           /\ DOMAIN issues' = DOMAIN issues
           /\ \A i \in DOMAIN issues : issues'[i].status = issues[i].status
           /\ issueStatusLogs' = issueStatusLogs
      /\ (\E i \in DOMAIN issues : issues'[i].status # issues[i].status) =>
           \E r \in Requests : r.kind = "status" /\ StatusUpdate(r) ]_vars

\* issue 1 has been flagged, voted for and hidden and the member banned; its
\* status is still 'reported' and the log holds the initial entry only
C12_Witness ==
  /\ resp.kind = "ban" /\ resp.code = 200
  /\ users[2].isBanned
  /\ issues[1].isHidden
  /\ issues[1].flagCount = 1 /\ issues[1].reportCount = 2
  /\ issues[1].status = "reported"
  /\ Len(issueStatusLogs) = 1

\* C13: every issue that POST /api/issues inserts starts with status
\* 'reported', flagCount 0, reportCount 1 and hidden = false, for every body
\* that passes validation.
C13_CreatedWithDefaults ==
  [][ \A r \in Requests :
        CreateInsert(r) =>
          /\ issues'[NextIssueId].status = "reported"
          /\ issues'[NextIssueId].flagCount = 0
          /\ issues'[NextIssueId].reportCount = 1
          /\ issues'[NextIssueId].isHidden = FALSE ]_vars

\* C14: in every reachable state each issue's status is one of reported,
\* in_progress, resolved, whatever the bodies of the create and set-status
\* requests were.
C14_StatusInEnum ==
  \A i \in DOMAIN issues : issues[i].status \in Statuses

AdminRequest(u) ==
  \/ Flagged(u)
  \/ Analytics(u)
  \/ \E i \in IssueIds, st \in StatusInputs : StatusCheck(u, i, st)
  \/ \E i \in IssueIds : AdminHide(u, i)
  \/ \E target \in DOMAIN users : Ban(u, target) \/ Unban(u, target)

\* C16: a request to an admin endpoint (flagged list, analytics, set-status,
\* hide, ban, unban) by a user whose isAdmin flag is not true is answered 403
\* and changes no state: no table changes and no write statement follows.
C16_NonAdminRejected ==
  [][ \A u \in DOMAIN users :
        (~users[u].isAdmin /\ AdminRequest(u)) =>
          /\ resp'.code = 403
          /\ UNCHANGED <<store, inflight>> ]_vars

\* the member's ban request has just been answered 403 and nobody is banned
C16_Witness ==
  /\ resp.kind = "ban" /\ resp.code = 403
  /\ \A u \in DOMAIN users : ~users[u].isBanned

\* C17: every request that names an issue id not present in the store (flag,
\* vote, admin hide) is answered 404 and changes no state.  For a flag or a
\* vote request the answer comes at the INSERT; for hide at the only step.
C17_UnknownIssueIs404 ==
  [][ /\ \A r \in Requests :
           ( /\ r.issueId \notin DOMAIN issues
             /\ FlagInsert(r) \/ VoteInsert(r) ) =>
             (resp'.code = 404 /\ UNCHANGED store)
      /\ \A u \in DOMAIN users, i \in IssueIds :
           (users[u].isAdmin /\ i \notin DOMAIN issues /\ AdminHide(u, i)) =>
             (resp'.code = 404 /\ UNCHANGED store) ]_vars

\* C18: a set-status request (of an admin) for an id with no issue is answered
\* 404, appends no StatusLogEntry and changes no issue: no table changes and
\* no write statement follows.
C18_SetStatusUnknownIs404 ==
  [][ \A u \in DOMAIN users, i \in IssueIds, st \in StatusInputs :
        (users[u].isAdmin /\ i \notin DOMAIN issues /\ StatusCheck(u, i, st)) =>
          /\ resp'.kind = "status" /\ resp'.code = 404
          /\ UNCHANGED <<store, inflight>> ]_vars

\* with issue 1 stored, a set-status request for another id has just been
\* answered 404
C18_Witness ==
  /\ resp.kind = "status" /\ resp.code = 404
  /\ DOMAIN issues = {1}
  /\ Len(issueStatusLogs) = 1
  /\ inflight = EmptyBag

\* C19: a create, flag or set-status request with malformed or missing input
\* is answered 400 and leaves the store unchanged: nothing is written at
\* arrival and the request does not go on to a write statement.
C19_MalformedIs400 ==
  [][ /\ \A u \in DOMAIN users, c \in Categories, p \in Places,
            st \in StatusInputs \cup {Null}, files \in 0..MaxFiles :
           (~users[u].isBanned /\ CreateCheck(u, files, c, p, st, FALSE)) =>
             (resp'.code = 400 /\ UNCHANGED <<store, inflight>>)
      /\ \A u \in DOMAIN users, i \in IssueIds :
           FlagCheck(u, i, FALSE) =>
             (resp'.code = 400 /\ UNCHANGED <<store, inflight>>)
      /\ \A u \in DOMAIN users, i \in DOMAIN issues,
            st \in StatusInputs \ Statuses :
           (users[u].isAdmin /\ StatusCheck(u, i, st)) =>
             (resp'.code = 400 /\ UNCHANGED <<store, inflight>>) ]_vars

(***************************************************************************)
(* Properties of the public queries.                                       *)
(***************************************************************************)
Returned == {resp.body[k] : k \in DOMAIN resp.body}

\* C7: the proximity query never returns an issue that is hidden at the time
\* the query runs, for any origin, radius and filters.
C7_NearbyExcludesHidden ==
  resp.kind = "nearby" => \A i \in Returned : ~issues[i].isHidden

\* a nearby response with an issue in it, while a hidden issue lies at the
\* origin of the query
C7_Witness ==
  /\ resp.kind = "nearby" /\ resp.code = 200
  /\ Returned # {}
  /\ \E i \in DOMAIN issues :
       issues[i].isHidden /\ issues[i].place = resp.args.origin

\* C8: the proximity query returns no issue whose great-circle distance from
\* the origin exceeds the radius, and (with no filter and the default limit
\* and offset) does return every non-hidden issue within the radius.
C8_NearbyWithinRadius ==
  resp.kind = "nearby" /\ resp.args.origin # Null =>
    /\ \A i \in Returned :
         GreatCircleMetres(resp.args.origin, issues[i].place)
           <= resp.args.radiusKm * 1000
    /\ ( /\ resp.args.category = Null /\ resp.args.status = Null
         /\ resp.args.limit = DefaultLimit /\ resp.args.offset = DefaultOffset )
       => /\ resp.code = 200
          /\ Returned =
               {i \in DOMAIN issues :
                  /\ ~issues[i].isHidden
                  /\ GreatCircleMetres(resp.args.origin, issues[i].place)
                       <= resp.args.radiusKm * 1000}

\* C9: no public query returns a hidden issue: GET /api/issues/:id never
\* returns an issue whose hidden flag is true.
C9_GetIssueExcludesHidden ==
  resp.kind = "getIssue" /\ resp.code = 200 =>
    \A i \in Returned : ~issues[i].isHidden

\* the reference result of a proximity query: the non-hidden issues within
\* the radius that match the filters given, newest first, without the first
\* `offset` of them and at most `limit` long
C20_Reference(args) ==
  LET kept == {i \in DOMAIN issues :
                 /\ ~issues[i].isHidden
                 /\ GreatCircleMetres(args.origin, issues[i].place)
                      <= args.radiusKm * 1000
                 /\ args.category = Null \/ issues[i].category = args.category
                 /\ args.status = Null \/ issues[i].status = args.status}
      n == Cardinality(kept)
      sorted == CHOOSE seq \in [1..n -> kept] :
                  \A j, k \in 1..n :
                    j < k => issues[seq[j]].createdAt > issues[seq[k]].createdAt
      m == IF n - args.offset < 0 THEN 0
           ELSE IF n - args.offset < args.limit THEN n - args.offset
           ELSE args.limit
  IN  [k \in 1..m |-> sorted[k + args.offset]]

\* C20: for any store contents and arguments (latitude and longitude given),
\* the proximity query answers with the reference result.
C20_NearbyEqualsReference ==
  resp.kind = "nearby" /\ resp.args.origin # Null =>
    /\ resp.code = 200
    /\ resp.body = C20_Reference(resp.args)

(***************************************************************************)
(* Further properties of the queries, the counters and the status log.     *)
(***************************************************************************)
\* C21: a nearby request in which lat or lng is not supplied is answered 400
\* with no list of issues: the handler returns before it calls the store.
C21_MissingCoordinatesIs400 ==
  resp.kind = "nearby" /\ resp.args.origin = Null =>
    resp.code = 400 /\ resp.body = <<>>

\* a nearby request without coordinates has been answered 400 while a
\* non-hidden issue is stored
C21_Witness ==
  /\ resp.kind = "nearby" /\ resp.code = 400 /\ resp.args.origin = Null
  /\ \E i \in DOMAIN issues : ~issues[i].isHidden

\* rows of issue_flags (issue_votes) of an issue, duplicates counted
FlagRowCount(issueId) ==
  BagCardinality([row \in {x \in BagToSet(issueFlags) : x.issueId = issueId}
                    |-> CopiesIn(row, issueFlags)])

VoteRowCount(issueId) ==
  BagCardinality([row \in {x \in BagToSet(issueVotes) : x.issueId = issueId}
                    |-> CopiesIn(row, issueVotes)])

\* requests on the issue that have inserted their row and not yet incremented
AwaitingIncrement(kind, pc, issueId) ==
  BagCardinality([r \in {x \in BagToSet(inflight) :
                           x.kind = kind /\ x.pc = pc /\ x.issueId = issueId}
                    |-> CopiesIn(r, inflight)])

\* C25: a flag (vote) request is all-or-nothing, also when it fails with a
\* store error: a Flag (Vote) row exists only together with its counter
\* increment, so the rows of an issue are those counted in flagCount
\* (reportCount - 1) plus those of the requests still between their INSERT and
\* their increment.
C25_FlagAndVoteAllOrNothing ==
  \A i \in DOMAIN issues :
    /\ FlagRowCount(i) =
         issues[i].flagCount
           + AwaitingIncrement("flag", "incrementIssueFlagCount", i)
    /\ VoteRowCount(i) =
         issues[i].reportCount - 1
           + AwaitingIncrement("vote", "incrementIssueReportCount", i)

\* C26: no counter update is lost: when the flag requests of n distinct users
\* on an issue have all completed (in any interleaving, without store
\* failure), flagCount equals the number of Flag rows of the issue, n.
C26_NoLostFlagCount ==
  \A i \in DOMAIN issues :
    FlagQuiescent(i) =>
      /\ issues[i].flagCount = FlagRowCount(i)
      /\ (\A row \in BagToSet(issueFlags) : CopiesIn(row, issueFlags) = 1)
           => issues[i].flagCount = Cardinality(Flaggers(i))

\* three distinct users have completed their flag requests on issue 1
C26_Witness ==
  /\ FlagQuiescent(1)
  /\ \A row \in BagToSet(issueFlags) : CopiesIn(row, issueFlags) = 1
  /\ Cardinality(Flaggers(1)) = 3
  /\ issues[1].flagCount = 3
  /\ ~issues[1].isHidden

\* C27: set-status accepts every transition among reported, in_progress and
\* resolved, backwards and same-status ones included: the request of an admin
\* for a stored issue is never answered at arrival (it goes on to the UPDATE),
\* and each request answered 200 has appended one StatusLogEntry, for its
\* issue and with the requested status as newStatus.
C27_EveryTransitionAccepted ==
  [][ /\ \A u \in DOMAIN users, i \in DOMAIN issues, st \in Statuses :
           (users[u].isAdmin /\ StatusCheck(u, i, st)) =>
             /\ resp' = NoResp
             /\ \E r \in BagToSet(inflight') :
                  /\ r.kind = "status" /\ r.pc = "updateIssue"
                  /\ r.issueId = i /\ r.status = st
                  /\ CopiesIn(r, inflight') = CopiesIn(r, inflight) + 1
      /\ (resp'.kind = "status" /\ resp'.code = 200) =>
           /\ Len(issueStatusLogs') = Len(issueStatusLogs) + 1
           /\ \E r \in BagToSet(inflight) :
                /\ r.kind = "status" /\ r.status \in Statuses
                /\ issueStatusLogs'[Len(issueStatusLogs')].issueId = r.issueId
                /\ issueStatusLogs'[Len(issueStatusLogs')].newStatus = r.status
                /\ inflight' = inflight (-) SetToBag({r}) ]_vars

\* a request to set a resolved issue back to 'reported' has been answered 200
\* and logged
C27_Witness ==
  /\ resp.kind = "status" /\ resp.code = 200
  /\ Len(issueStatusLogs) = 3
  /\ issueStatusLogs[3].oldStatus = "resolved"
  /\ issueStatusLogs[3].prior = "resolved"
  /\ issueStatusLogs[3].newStatus = "reported"
  /\ issues[1].status = "reported"

\* the positions in the log of the entries of an issue
LogsOfIssue(issueId) ==
  {k \in DOMAIN issueStatusLogs : issueStatusLogs[k].issueId = issueId}

\* C28: whenever no create or set-status request is in progress, the most
\* recently written StatusLogEntry of each issue has newStatus equal to the
\* issue's current status.
C28_LastLogIsCurrentStatus ==
  (\A r \in Requests : r.kind \notin {"create", "status"}) =>
    \A i \in DOMAIN issues :
      \A k \in LogsOfIssue(i) :
        (\A j \in LogsOfIssue(i) : j <= k) =>
          issueStatusLogs[k].newStatus = issues[i].status

\* C30: in every state where no vote request is in progress each issue's
\* reportCount is 1 plus the number of its Vote rows; reportCount is never
\* below 1, flagCount never below 0, and no step decreases either counter.
C30_ReportCountMatchesVotes ==
  /\ [](\A i \in DOMAIN issues :
          /\ issues[i].reportCount >= 1
          /\ issues[i].flagCount >= 0
          /\ (\A r \in Requests : r.kind # "vote") =>
               issues[i].reportCount = 1 + VoteRowCount(i))
  /\ [][ \A i \in DOMAIN issues :
           /\ issues'[i].reportCount >= issues[i].reportCount
           /\ issues'[i].flagCount >= issues[i].flagCount ]_vars

\* C22: the flagged list holds exactly the issues with flagCount >= 1, hidden
\* ones included, each once, in non-increasing flagCount order; an issue with
\* flagCount 0 is not in it.
C22_FlaggedListExact ==
  resp.kind = "flagged" /\ resp.code = 200 =>
    /\ Returned = {i \in DOMAIN issues : issues[i].flagCount >= 1}
    /\ Len(resp.body) = Cardinality(Returned)
    /\ \A j, k \in DOMAIN resp.body :
         j < k => issues[resp.body[j]].flagCount >= issues[resp.body[k]].flagCount

\* the list holds issue 2 (two flags) before issue 1 (one flag, hidden)
C22_Witness ==
  /\ resp.kind = "flagged" /\ resp.code = 200
  /\ resp.body = <<2, 1>>
  /\ issues[2].flagCount = 2 /\ issues[1].flagCount = 1
  /\ issues[1].isHidden

\* the count a mapping gives for a key (no key: no issue in that group)
CountOf(counts, key) == IF key \in DOMAIN counts THEN counts[key] ELSE 0

Visible == {i \in DOMAIN issues : ~issues[i].isHidden}

\* C23: analytics counts only non-hidden issues: totalIssues is the number of
\* non-hidden issues, issuesByCategory[c] the number of non-hidden issues of
\* category c and issuesByStatus[s] the number of non-hidden issues with
\* status s; a hidden issue is in none of the three.
C23_AnalyticsCountsVisible ==
  resp.kind = "analytics" /\ resp.code = 200 =>
    /\ resp.stats.totalIssues = Cardinality(Visible)
    /\ DOMAIN resp.stats.issuesByCategory \subseteq Categories
    /\ \A c \in Categories :
         CountOf(resp.stats.issuesByCategory, c)
           = Cardinality({i \in Visible : issues[i].category = c})
    /\ DOMAIN resp.stats.issuesByStatus \subseteq StatusInputs
    /\ \A st \in StatusInputs :
         CountOf(resp.stats.issuesByStatus, st)
           = Cardinality({i \in Visible : issues[i].status = st})

\* three roads and two water issues, one of each hidden by now: the answer is
\* issuesByCategory = {roads: 2, water: 1}
C23_Witness ==
  /\ resp.kind = "analytics" /\ resp.code = 200
  /\ Cardinality({i \in DOMAIN issues : issues[i].category = "roads"}) = 3
  /\ Cardinality({i \in DOMAIN issues : issues[i].category = "water"}) = 2
  /\ Cardinality(Visible) = 3
  /\ resp.stats.totalIssues = 3
  /\ resp.stats.issuesByCategory = [c \in Categories |-> IF c = "roads" THEN 2 ELSE 1]

RECURSIVE SumOfCounts(_)
SumOfCounts(counts) ==
  IF DOMAIN counts = {} THEN 0
  ELSE LET key == CHOOSE k \in DOMAIN counts : TRUE
       IN  counts[key] + SumOfCounts([k \in DOMAIN counts \ {key} |-> counts[k]])

\* C29: in every analytics response totalIssues equals the sum of the
\* issuesByCategory counts and the sum of the issuesByStatus counts, also when
\* creations, hides and flag-triggered auto-hides run between the statements
\* of the analytics request.
C29_AnalyticsTotalsAgree ==
  resp.kind = "analytics" /\ resp.code = 200 =>
    /\ resp.stats.totalIssues = SumOfCounts(resp.stats.issuesByCategory)
    /\ resp.stats.totalIssues = SumOfCounts(resp.stats.issuesByStatus)

\* C24: every stored issue has at most 3 photo references and the report form
\* never holds more than 3 selected photos; a create request carrying more
\* than 3 files is rejected and creates no Issue and no StatusLogEntry.
C24_AtMostThreePhotos ==
  /\ [](/\ \A i \in DOMAIN issues : issues[i].photos <= 3
        /\ photos <= 3)
  /\ [][ \A u \in DOMAIN users, c \in Categories, files \in 4..MaxPicked,
            v \in BOOLEAN :
          CreateCheck(u, files, c, "SF", Null, v) =>
            /\ resp'.kind = "create" /\ resp'.code >= 400
            /\ UNCHANGED <<store, inflight>> ]_vars

\* an issue with three photos is stored, the form holds three photos and a
\* create request has just been rejected by the upload middleware
C24_Witness ==
  /\ resp.kind = "create" /\ resp.code = 500
  /\ \E i \in DOMAIN issues : issues[i].photos = 3
  /\ photos = 3
  /\ inflight = EmptyBag

====
